---- MODULE Spec2Model ----
(***************************************************************************)
(* Model of the Material aggregate of assets/domain/material.go: the Money *)
(* value object, the quantity-unit table, the event fold (Transition /     *)
(* TrackChange) and the commands CreateMaterial, ChangeName,               *)
(* ChangePricePerUnit and ChangeQuantityUnit.                              *)
(*                                                                         *)
(* Go strings that are only compared are TLA+ strings.  A name is a        *)
(* sequence of code points, because len(name) counts UTF-8 bytes.  A       *)
(* float32 is a record [nan, v]: either NaN or the number v.  A Money      *)
(* interface value is a pointer to an EUR object: an index into heap, 0    *)
(* for the nil interface.  An optional (pointer) attribute is <<>> when    *)
(* absent and <<x>> when present.  A MaterialType interface value is its   *)
(* Code() string, or NilType for the nil interface.                        *)
(***************************************************************************)
EXTENDS Integers, Sequences, FiniteSets, TLC

\* m         the aggregate CreateMaterial returned (ZeroMaterial while none)
\* live      CreateMaterial has returned an aggregate
\* heap      the EUR objects behind the Money interface values
\* op        the operation called last, result the error it returned
\* succeeded the commands that returned nil so far, in call order
VARIABLES m, live, heap, op, result, succeeded

vars == <<m, live, heap, op, result, succeeded>>

\* ---------------------------------------------------------------- bounds
MaxEvents == 3

\* ------------------------------------------------------------ value sets
MoneyEUR == "EUR"
MoneyIDR == "IDR"

MaterialUnitSeeds      == "SEEDS"
MaterialUnitPackets    == "PACKETS"
MaterialUnitGram       == "GRAM"
MaterialUnitKilogram   == "KILOGRAM"
MaterialUnitBags       == "BAGS"
MaterialUnitBottles    == "BOTTLES"
MaterialUnitCubicMetre == "CUBIC_METRE"
MaterialUnitPieces     == "PIECES"
MaterialUnitUnits      == "UNITS"

MaterialTypeSeedCode                == "SEED"
MaterialTypeAgrochemicalCode        == "AGROCHEMICAL"
MaterialTypeGrowingMediumCode       == "GROWING_MEDIUM"
MaterialTypeLabelAndCropSupportCode == "LABEL_AND_CROP_SUPPORT"
MaterialTypeSeedingContainerCode    == "SEEDING_CONTAINER"
MaterialTypePostHarvestSupplyCode   == "POST_HARVEST_SUPPLY"
MaterialTypePlantCode               == "PLANT"
MaterialTypeOtherCode               == "OTHER"

\* the nil MaterialType interface value
NilType == "<nil>"

\* error values; NoError is Go's nil error, Panic a nil-pointer dereference
NoError          == "nil"
Panic            == "panic: nil pointer dereference"
ErrPriceEmpty    == "price cannot be empty"
ErrMoneyNotFound == "money not found"
ErrTypeEmpty     == "cannot be empty"
ErrNameEmpty     == "cannot be empty"
ErrNameShort     == "too few characters"
ErrQuantity      == "Cannot be empty"
ErrQuantityUnit  == "Cannot be empty"
ErrUUID          == "uuid: entropy source failed"

\* float32 values
Num(v) == [nan |-> FALSE, v |-> v]
NaN    == [nan |-> TRUE, v |-> 0]

\* optional attributes
None    == <<>>
Some(x) == <<x>>

\* ------------------------------------------------------------------ Money
\* EUR.Code
EURCode == MoneyEUR

\* EUR.Symbol
EURSymbol == "€"

\* CreateMoney with a case for the declared constant MoneyIDR as well
CreateMoneyErrAcceptsIDR(price, priceUnit) ==
    IF price = "" THEN ErrPriceEmpty
    ELSE IF priceUnit = EURCode \/ priceUnit = MoneyIDR THEN NoError
    ELSE ErrMoneyNotFound

\* CreateMoney: the error it returns (NoError on success)
CreateMoneyErr(price, priceUnit) ==
    IF price = "" THEN ErrPriceEmpty
    ELSE IF priceUnit = EURCode THEN NoError
    ELSE ErrMoneyNotFound

\* CreateMoney on success: money = &EUR{}; money.SetAmount(price).  The new
\* object is the next heap cell; the returned interface value points at it.
NewMoneyPtr(h) == Len(h) + 1

NewMoneyHeap(h, price) == Append(h, [amount |-> price])

\* EUR.SetAmount through the pointer p
SetAmountHeap(h, p, amount) == [h EXCEPT ![p] = [amount |-> amount]]

\* EUR.Amount through the pointer p
Amount(h, p) == h[p].amount

\* ------------------------------------------------------- quantity units
Unit(code, label) == [Code |-> code, Label |-> label]

ZeroUnit == Unit("", "")

\* the table with BAGS listed for seed as well
MaterialQuantityUnitsSeedBags(materialTypeCode) ==
    IF materialTypeCode = MaterialTypeSeedCode THEN
        << Unit(MaterialUnitSeeds, "Seeds"), Unit(MaterialUnitPackets, "Packets"),
           Unit(MaterialUnitGram, "Gram"), Unit(MaterialUnitKilogram, "Kilogram"),
           Unit(MaterialUnitBags, "Bags") >>
    ELSE IF materialTypeCode = MaterialTypeAgrochemicalCode THEN
        << Unit(MaterialUnitPackets, "Packets"), Unit(MaterialUnitBottles, "Bottles"),
           Unit(MaterialUnitBags, "Bags") >>
    ELSE IF materialTypeCode = MaterialTypeGrowingMediumCode THEN
        << Unit(MaterialUnitBags, "Bags"), Unit(MaterialUnitCubicMetre, "Cubic Metre") >>
    ELSE IF materialTypeCode = MaterialTypePlantCode THEN
        << Unit(MaterialUnitUnits, "Units"), Unit(MaterialUnitPackets, "Packets") >>
    ELSE IF materialTypeCode \in { MaterialTypeLabelAndCropSupportCode,
                                   MaterialTypeSeedingContainerCode,
                                   MaterialTypePostHarvestSupplyCode,
                                   MaterialTypeOtherCode } THEN
        << Unit(MaterialUnitPieces, "Pieces") >>
    ELSE << >>

MaterialQuantityUnits(materialTypeCode) ==
    IF materialTypeCode = MaterialTypeSeedCode THEN
        << Unit(MaterialUnitSeeds, "Seeds"), Unit(MaterialUnitPackets, "Packets"),
           Unit(MaterialUnitGram, "Gram"), Unit(MaterialUnitKilogram, "Kilogram") >>
    ELSE IF materialTypeCode = MaterialTypeAgrochemicalCode THEN
        << Unit(MaterialUnitPackets, "Packets"), Unit(MaterialUnitBottles, "Bottles"),
           Unit(MaterialUnitBags, "Bags") >>
    ELSE IF materialTypeCode = MaterialTypeGrowingMediumCode THEN
        << Unit(MaterialUnitBags, "Bags"), Unit(MaterialUnitCubicMetre, "Cubic Metre") >>
    ELSE IF materialTypeCode = MaterialTypeLabelAndCropSupportCode THEN
        << Unit(MaterialUnitPieces, "Pieces") >>
    ELSE IF materialTypeCode = MaterialTypeSeedingContainerCode THEN
        << Unit(MaterialUnitPieces, "Pieces") >>
    ELSE IF materialTypeCode = MaterialTypePostHarvestSupplyCode THEN
        << Unit(MaterialUnitPieces, "Pieces") >>
    ELSE IF materialTypeCode = MaterialTypePlantCode THEN
        << Unit(MaterialUnitUnits, "Units"), Unit(MaterialUnitPackets, "Packets") >>
    ELSE IF materialTypeCode = MaterialTypeOtherCode THEN
        << Unit(MaterialUnitPieces, "Pieces") >>
    ELSE << >>

\* the range loop of GetMaterialQuantityUnit from index i on
RECURSIVE FirstUnitFrom(_, _, _)
FirstUnitFrom(units, code, i) ==
    IF i > Len(units) THEN ZeroUnit
    ELSE IF units[i].Code = code THEN units[i]
    ELSE FirstUnitFrom(units, code, i + 1)

GetMaterialQuantityUnit(materialTypeCode, code) ==
    FirstUnitFrom(MaterialQuantityUnits(materialTypeCode), code, 1)

\* validateQuantity: quantity <= 0 is false for NaN
\* validateQuantity that rejects negative values only
validateQuantityNegativeOnly(quantity) ==
    IF ~quantity.nan /\ quantity.v < 0 THEN ErrQuantity ELSE NoError

validateQuantity(quantity) ==
    IF ~quantity.nan /\ quantity.v <= 0 THEN ErrQuantity ELSE NoError

\* validateQuantityUnit: calls materialType.Code(), which panics on nil
validateQuantityUnitErr(quantityUnit, materialType) ==
    IF materialType = NilType THEN Panic
    ELSE IF GetMaterialQuantityUnit(materialType, quantityUnit) = ZeroUnit
         THEN ErrQuantityUnit
         ELSE NoError

validateQuantityUnit(quantityUnit, materialType) ==
    GetMaterialQuantityUnit(materialType, quantityUnit)

\* ------------------------------------------------------------ aggregate
\* the zero-value Material
ZeroMaterial ==
    [ UID |-> 0, Name |-> <<>>, PricePerUnit |-> 0, Type |-> NilType,
      Quantity |-> [Value |-> Num(0), Unit |-> ZeroUnit],
      ExpirationDate |-> None, Notes |-> None, IsExpense |-> None,
      ProducedBy |-> None, Version |-> 0, UncommittedChanges |-> <<>> ]

\* events
MaterialCreated(s) ==
    [ kind |-> "MaterialCreated", UID |-> s.UID, Name |-> s.Name,
      PricePerUnit |-> s.PricePerUnit, Type |-> s.Type, Quantity |-> s.Quantity,
      ExpirationDate |-> s.ExpirationDate, Notes |-> s.Notes,
      ProducedBy |-> s.ProducedBy, IsExpense |-> s.IsExpense ]

\* the event built without its UID
MaterialNameChangedNoUID(uid, name) ==
    [ kind |-> "MaterialNameChanged", UID |-> 0, Name |-> name ]

MaterialNameChanged(uid, name) ==
    [ kind |-> "MaterialNameChanged", UID |-> uid, Name |-> name ]

MaterialPriceChanged(uid, price) ==
    [ kind |-> "MaterialPriceChanged", UID |-> uid, Price |-> price ]

MaterialQuantityChanged(uid, quantity) ==
    [ kind |-> "MaterialQuantityChanged", UID |-> uid, Quantity |-> quantity ]

\* Transition with the Notes assignment left out
TransitionDropsNotes(state, e) ==
    IF e.kind = "MaterialCreated" THEN
        [ state EXCEPT !.UID = e.UID, !.Name = e.Name,
                       !.PricePerUnit = e.PricePerUnit, !.Type = e.Type,
                       !.Quantity = e.Quantity,
                       !.ExpirationDate = e.ExpirationDate,
                       !.ProducedBy = e.ProducedBy, !.IsExpense = e.IsExpense ]
    ELSE state

\* Transition that stores an empty string for absent Notes
TransitionNotesDefaulted(state, e) ==
    IF e.kind = "MaterialCreated" THEN
        [ state EXCEPT !.UID = e.UID, !.Name = e.Name,
                       !.PricePerUnit = e.PricePerUnit, !.Type = e.Type,
                       !.Quantity = e.Quantity,
                       !.ExpirationDate = e.ExpirationDate,
                       !.Notes = IF e.Notes = None THEN Some("") ELSE e.Notes,
                       !.ProducedBy = e.ProducedBy, !.IsExpense = e.IsExpense ]
    ELSE state

\* Transition with a case for MaterialNameChanged that rebuilds the state
\* from the event, losing the Notes
TransitionNameClearsNotes(state, e) ==
    IF e.kind = "MaterialCreated" THEN
        [ state EXCEPT !.UID = e.UID, !.Name = e.Name,
                       !.PricePerUnit = e.PricePerUnit, !.Type = e.Type,
                       !.Quantity = e.Quantity,
                       !.ExpirationDate = e.ExpirationDate, !.Notes = e.Notes,
                       !.ProducedBy = e.ProducedBy, !.IsExpense = e.IsExpense ]
    ELSE IF e.kind = "MaterialNameChanged" THEN
        [ state EXCEPT !.Name = e.Name, !.Notes = None ]
    ELSE state

\* Transition whose switch has a default branch that resets the state
TransitionUnknownResets(state, e) ==
    IF e.kind = "MaterialCreated" THEN
        [ state EXCEPT !.UID = e.UID, !.Name = e.Name,
                       !.PricePerUnit = e.PricePerUnit, !.Type = e.Type,
                       !.Quantity = e.Quantity,
                       !.ExpirationDate = e.ExpirationDate, !.Notes = e.Notes,
                       !.ProducedBy = e.ProducedBy, !.IsExpense = e.IsExpense ]
    ELSE IF e.kind \in { "MaterialNameChanged", "MaterialPriceChanged",
                         "MaterialQuantityChanged" } THEN state
    ELSE [ state EXCEPT !.UID = 0, !.Name = <<>>, !.Notes = None ]

\* Material.Transition: the type switch has the single case MaterialCreated
Transition(state, e) ==
    IF e.kind = "MaterialCreated" THEN
        [ state EXCEPT !.UID = e.UID, !.Name = e.Name,
                       !.PricePerUnit = e.PricePerUnit, !.Type = e.Type,
                       !.Quantity = e.Quantity,
                       !.ExpirationDate = e.ExpirationDate, !.Notes = e.Notes,
                       !.ProducedBy = e.ProducedBy, !.IsExpense = e.IsExpense ]
    ELSE state

\* TrackChange that folds the event without recording it
TrackChangeNoAppend(state, event) == Transition(state, event)

\* TrackChange that puts the event at the front of the buffer
TrackChangePrepend(state, event) ==
    Transition([state EXCEPT !.UncommittedChanges = <<event>> \o @], event)

\* Material.TrackChange
TrackChange(state, event) ==
    Transition([state EXCEPT !.UncommittedChanges = Append(@, event)], event)

\* len(name): the number of UTF-8 bytes of the string
Utf8Width(c) == IF c < 128 THEN 1 ELSE IF c < 2048 THEN 2 ELSE IF c < 65536 THEN 3 ELSE 4

RECURSIVE GoLen(_)
GoLen(name) == IF name = <<>> THEN 0 ELSE Utf8Width(Head(name)) + GoLen(Tail(name))

\* ---------------------------------------------------------------- inputs
\* "", "abcde", "abcdef"
Names == { <<>>, <<97, 98, 99, 100, 101>>, <<97, 98, 99, 100, 101, 102>> }

Prices == { "", "5.00", "10.50" }

PriceUnits == { MoneyEUR, MoneyIDR }

Types == { NilType, MaterialTypeSeedCode, MaterialTypeAgrochemicalCode, "FOREIGN" }

Quantities == { Num(0), Num(50), NaN }

QuantityUnits == { "", MaterialUnitSeeds, MaterialUnitBags }

\* the outcome of uuid.NewV4(): 0 is "error", otherwise the fresh id
UUIDOutcomes == { 0, 7 }

\* expirationDate, notes, producedBy, isExpense: all absent, or all present
\* with the empty / zero value the absent case must stay distinct from
OptionalInputs ==
    { [expirationDate |-> None, notes |-> None, producedBy |-> None, isExpense |-> None],
      [expirationDate |-> Some(0), notes |-> Some(""), producedBy |-> Some(""),
       isExpense |-> Some(FALSE)] }

Init ==
    /\ m = ZeroMaterial
    /\ live = FALSE
    /\ heap = <<>>
    /\ op = ""
    /\ result = ""
    /\ succeeded = <<>>

\* ----------------------------------------------------------------- commands
\* Each command is one atomic step.  A panic is not recovered: it ends the
\* caller, so no operation follows a call whose result is Panic.
\* CreateMaterial with the materialType check moved before CreateMoney
CreateMaterialErrTypeFirst(price, priceUnit, materialType, quantity, quantityUnit, uuidOutcome) ==
    IF uuidOutcome = 0 THEN ErrUUID
    ELSE IF materialType = NilType THEN ErrTypeEmpty
    ELSE IF CreateMoneyErr(price, priceUnit) # NoError
         THEN CreateMoneyErr(price, priceUnit)
    ELSE IF validateQuantity(quantity) # NoError THEN validateQuantity(quantity)
    ELSE validateQuantityUnitErr(quantityUnit, materialType)

\* CreateMaterial: the checks of lines 185-207 in order; the error returned
CreateMaterialErr(price, priceUnit, materialType, quantity, quantityUnit, uuidOutcome) ==
    IF uuidOutcome = 0 THEN ErrUUID
    ELSE IF CreateMoneyErr(price, priceUnit) # NoError
         THEN CreateMoneyErr(price, priceUnit)
    ELSE IF materialType = NilType THEN ErrTypeEmpty
    ELSE IF validateQuantity(quantity) # NoError THEN validateQuantity(quantity)
    ELSE validateQuantityUnitErr(quantityUnit, materialType)

\* the Material literal of CreateMaterial (initial := &Material{...})
InitialMaterial(uid, name, money, materialType, quantity, qu, expirationDate, notes, producedBy, isExpense) ==
    [ ZeroMaterial EXCEPT !.UID = uid, !.Name = name, !.PricePerUnit = money,
                          !.Type = materialType,
                          !.Quantity = [Value |-> quantity, Unit |-> qu],
                          !.ExpirationDate = expirationDate, !.Notes = notes,
                          !.ProducedBy = producedBy, !.IsExpense = isExpense ]

CreateMaterial(name, price, priceUnit, materialType, quantity, quantityUnit, expirationDate, notes, producedBy, isExpense, uuidOutcome) ==
    LET err == CreateMaterialErr(price, priceUnit, materialType, quantity,
                                 quantityUnit, uuidOutcome)
        initial == InitialMaterial(uuidOutcome, name, NewMoneyPtr(heap), materialType,
                                   quantity,
                                   validateQuantityUnit(quantityUnit, materialType),
                                   expirationDate, notes, producedBy, isExpense)
    IN  /\ ~live
        /\ result # Panic
        /\ op' = "CreateMaterial"
        /\ result' = err
        /\ succeeded' = IF err = NoError THEN Append(succeeded, "CreateMaterial") ELSE succeeded
        /\ IF err = NoError
           THEN /\ heap' = NewMoneyHeap(heap, price)
                /\ m' = TrackChange(initial, MaterialCreated(initial))
                /\ live' = TRUE
           ELSE UNCHANGED <<m, live, heap>>

\* Material.ChangeName: the error returned
ChangeNameErr(name) ==
    IF name = <<>> THEN ErrNameEmpty
    ELSE IF GoLen(name) <= 5 THEN ErrNameShort
    ELSE NoError

\* ChangeName that records the event before the length check
ChangeNameTracksFirst(name) ==
    LET err == ChangeNameErr(name)
    IN  /\ live
        /\ result # Panic
        /\ Len(m.UncommittedChanges) < MaxEvents
        /\ op' = "ChangeName"
        /\ result' = err
        /\ succeeded' = IF err = NoError THEN Append(succeeded, "ChangeName") ELSE succeeded
        /\ IF err # ErrNameEmpty
           THEN m' = TrackChange(m, MaterialNameChanged(m.UID, name))
           ELSE UNCHANGED m
        /\ UNCHANGED <<live, heap>>

ChangeName(name) ==
    LET err == ChangeNameErr(name)
    IN  /\ live
        /\ result # Panic
        /\ err = NoError => Len(m.UncommittedChanges) < MaxEvents
        /\ op' = "ChangeName"
        /\ result' = err
        /\ succeeded' = IF err = NoError THEN Append(succeeded, "ChangeName") ELSE succeeded
        /\ IF err = NoError
           THEN m' = TrackChange(m, MaterialNameChanged(m.UID, name))
           ELSE UNCHANGED m
        /\ UNCHANGED <<live, heap>>

ChangePricePerUnit(price, priceUnit) ==
    LET err == CreateMoneyErr(price, priceUnit)
    IN  /\ live
        /\ result # Panic
        /\ err = NoError => Len(m.UncommittedChanges) < MaxEvents
        /\ op' = "ChangePricePerUnit"
        /\ result' = err
        /\ succeeded' = IF err = NoError THEN Append(succeeded, "ChangePricePerUnit") ELSE succeeded
        /\ IF err = NoError
           THEN /\ heap' = NewMoneyHeap(heap, price)
                /\ m' = TrackChange(m, MaterialPriceChanged(m.UID, NewMoneyPtr(heap)))
           ELSE UNCHANGED <<m, heap>>
        /\ UNCHANGED live

\* Material.ChangeQuantityUnit: the error returned (or the panic raised)
ChangeQuantityUnitErr(quantity, quantityUnit, materialType) ==
    IF validateQuantity(quantity) # NoError THEN validateQuantity(quantity)
    ELSE validateQuantityUnitErr(quantityUnit, materialType)

ChangeQuantityUnit(quantity, quantityUnit, materialType) ==
    LET err == ChangeQuantityUnitErr(quantity, quantityUnit, materialType)
        qu  == validateQuantityUnit(quantityUnit, materialType)
    IN  /\ live
        /\ result # Panic
        /\ err = NoError => Len(m.UncommittedChanges) < MaxEvents
        /\ op' = "ChangeQuantityUnit"
        /\ result' = err
        /\ succeeded' = IF err = NoError THEN Append(succeeded, "ChangeQuantityUnit") ELSE succeeded
        /\ IF err = NoError
           THEN m' = TrackChange(m, MaterialQuantityChanged(m.UID,
                                      [Value |-> quantity, Unit |-> qu]))
           ELSE UNCHANGED m
        /\ UNCHANGED <<live, heap>>

\* Money.SetAmount called on the aggregate's PricePerUnit
SetAmount(amount) ==
    /\ live
    /\ result # Panic
    /\ op' = "SetAmount"
    /\ result' = NoError
    /\ heap' = SetAmountHeap(heap, m.PricePerUnit, amount)
    /\ UNCHANGED <<m, live, succeeded>>

DoCreateMaterial ==
    \E name \in Names, price \in Prices, priceUnit \in PriceUnits,
       materialType \in Types, quantity \in Quantities,
       quantityUnit \in QuantityUnits,
       o \in OptionalInputs, uuidOutcome \in UUIDOutcomes :
        CreateMaterial(name, price, priceUnit, materialType, quantity, quantityUnit,
                       o.expirationDate, o.notes, o.producedBy, o.isExpense,
                       uuidOutcome)

DoChangeName == \E name \in Names : ChangeName(name)

DoChangePricePerUnit ==
    \E price \in Prices, priceUnit \in PriceUnits : ChangePricePerUnit(price, priceUnit)

DoChangeQuantityUnit ==
    \E quantity \in Quantities, quantityUnit \in QuantityUnits, materialType \in Types :
        ChangeQuantityUnit(quantity, quantityUnit, materialType)

DoSetAmount == \E amount \in Prices : SetAmount(amount)

Next ==
    \/ DoCreateMaterial
    \/ DoChangeName
    \/ DoChangePricePerUnit
    \/ DoChangeQuantityUnit

Spec == Init /\ [][Next]_vars

\* the commands together with direct use of the Money value object
NextMoney == Next \/ DoSetAmount

SpecMoney == Init /\ [][NextMoney]_vars

\* ------------------------------------------------------- property helpers
Commands == { "CreateMaterial", "ChangeName", "ChangePricePerUnit", "ChangeQuantityUnit" }

\* the call returned a non-nil error value (it neither succeeded nor panicked)
IsError(r) == r \notin { "", NoError, Panic }

Events == m.UncommittedChanges

\* the nine domain fields of an aggregate state
Domain(state) ==
    [ UID |-> state.UID, Name |-> state.Name, PricePerUnit |-> state.PricePerUnit,
      Type |-> state.Type, Quantity |-> state.Quantity,
      ExpirationDate |-> state.ExpirationDate, Notes |-> state.Notes,
      ProducedBy |-> state.ProducedBy, IsExpense |-> state.IsExpense ]

\* replay: Transition applied to the events in order
RECURSIVE Fold(_, _)
Fold(state, events) ==
    IF events = <<>> THEN state
    ELSE Fold(Transition(state, Head(events)), Tail(events))

\* the event kind that belongs to a command
EventKindOf(command) ==
    CASE command = "CreateMaterial"     -> "MaterialCreated"
      [] command = "ChangeName"         -> "MaterialNameChanged"
      [] command = "ChangePricePerUnit" -> "MaterialPriceChanged"
      [] command = "ChangeQuantityUnit" -> "MaterialQuantityChanged"

\* unit is one of the entries of MaterialQuantityUnits(typeCode)
UnitAllowed(typeCode, unit) ==
    \E i \in 1..Len(MaterialQuantityUnits(typeCode)) :
        MaterialQuantityUnits(typeCode)[i] = unit

UnitCodeAllowed(typeCode, code) ==
    \E i \in 1..Len(MaterialQuantityUnits(typeCode)) :
        MaterialQuantityUnits(typeCode)[i].Code = code

\* ------------------------------------------------------------------ claims

\* C1: after a successful ChangeName(n), ChangePricePerUnit(p, c) or
\* ChangeQuantityUnit(q, u, t) the aggregate's state holds the new value:
\* Name = n, PricePerUnit is the Money with amount p and code c, Quantity is
\* {q, the unit resolved from u}.
C1_ChangeUpdatesField ==
    [][ (result' = NoError /\ op' \in Commands \ {"CreateMaterial"}) =>
          /\ \A n \in Names : ChangeName(n) => m'.Name = n
          /\ \A p \in Prices, c \in PriceUnits :
                ChangePricePerUnit(p, c) =>
                    /\ m'.PricePerUnit \in 1..Len(heap')
                    /\ Amount(heap', m'.PricePerUnit) = p
                    /\ c = EURCode
          /\ \A q \in Quantities, u \in QuantityUnits, t \in Types :
                ChangeQuantityUnit(q, u, t) =>
                    m'.Quantity = [Value |-> q, Unit |-> GetMaterialQuantityUnit(t, u)]
      ]_vars

\* C2: folding the recorded UncommittedChanges in order from the zero-value
\* Material yields the domain state of the aggregate the commands were applied
\* to, and folding the same events a second time over that result yields the
\* same state again.
C2_ReplayEquivalence ==
    live =>
        /\ Domain(Fold(ZeroMaterial, Events)) = Domain(m)
        /\ Domain(Fold(Fold(ZeroMaterial, Events), Events)) = Domain(m)

C2_Witness ==
    /\ live
    /\ Len(Events) >= 3
    /\ Events[2].kind = "MaterialNameChanged"
    /\ Events[3].kind = "MaterialQuantityChanged"

\* C3: whenever ChangeName, ChangePricePerUnit or ChangeQuantityUnit returns an
\* error, the aggregate (every domain field, Version, UncommittedChanges) and
\* the Money objects its fields refer to are as before the call; a failing
\* CreateMaterial returns no aggregate and records no event.
C3_FailureLeavesStateUnchanged ==
    [][ (op' \in Commands /\ IsError(result')) =>
            /\ m' = m
            /\ heap' = heap
            /\ live' = live
            /\ op' = "CreateMaterial" => (~live' /\ m' = ZeroMaterial)
      ]_vars

C3_Witness ==
    /\ live
    /\ Len(Events) >= 2
    /\ op = "ChangeQuantityUnit"
    /\ IsError(result)

\* C4: every successful command appends exactly one event, of the kind that
\* belongs to the command, at the end of the buffer: the buffer is as long as
\* the number of successful commands and its events are in command order.
C4_OneEventPerCommand ==
    /\ Len(Events) = Len(succeeded)
    /\ \A i \in 1..Len(succeeded) : Events[i].kind = EventKindOf(succeeded[i])

C4_Witness ==
    /\ succeeded = << "CreateMaterial", "ChangePricePerUnit", "ChangeName" >>
    /\ op = "ChangeName"
    /\ result = ErrNameShort

\* C5: in every reachable state of an aggregate returned by CreateMaterial the
\* Name is non-empty and longer than 5 characters.
C5_NameLongerThanFive ==
    live => (m.Name # <<>> /\ Len(m.Name) > 5)

\* C6: ChangeQuantityUnit(quantity, unitCode, materialType) fails with the
\* invalid-quantity-unit error whenever unitCode is not in the allowed unit set
\* of the aggregate's own Type, whatever materialType is passed; so every
\* MaterialQuantityChanged event recorded carries a unit allowed for the
\* aggregate's Type.  (The absent materialType is the subject of C17.)
C6_UnitCheckedAgainstOwnType ==
    /\ [][ op' = "ChangeQuantityUnit" =>
             \A q \in Quantities, u \in QuantityUnits, t \in Types \ {NilType} :
                (ChangeQuantityUnit(q, u, t) /\ ~UnitCodeAllowed(m.Type, u))
                    => result' = ErrQuantityUnit
         ]_vars
    /\ [](\A i \in 1..Len(Events) :
             Events[i].kind = "MaterialQuantityChanged"
                => UnitAllowed(m.Type, Events[i].Quantity.Unit))

\* C7: in every reachable state of an aggregate returned by CreateMaterial,
\* Quantity.Value is strictly positive and Quantity.Unit is a non-zero-value
\* unit that is a member of MaterialQuantityUnits(Type.Code()).
C7_QuantityInvariant ==
    live =>
        /\ ~m.Quantity.Value.nan
        /\ m.Quantity.Value.v > 0
        /\ m.Quantity.Unit # ZeroUnit
        /\ UnitAllowed(m.Type, m.Quantity.Unit)

\* C8: Version is the number of events applied to the aggregate: 1 right after
\* a successful CreateMaterial (whose buffer holds exactly one event, a
\* MaterialCreated), and one more after each further successful command.
C8_VersionCountsEvents ==
    live =>
        /\ m.Version = Len(Events)
        /\ (op = "CreateMaterial" /\ result = NoError) =>
                (Len(Events) = 1 /\ Events[1].kind = "MaterialCreated" /\ m.Version = 1)

\* C9: the aggregate returned by CreateMaterial has UID, Name, PricePerUnit,
\* Type, Quantity, ExpirationDate, Notes, ProducedBy and IsExpense equal to the
\* same-named fields of the single MaterialCreated event it emitted, and the
\* optional inputs arrive in both as they were passed (absent stays absent).
C9_CreatedStateEqualsEvent ==
    [][ (op' = "CreateMaterial" /\ result' = NoError) =>
          /\ Len(m'.UncommittedChanges) = 1
          /\ m'.UncommittedChanges[1].kind = "MaterialCreated"
          /\ Domain(m') = Domain(m'.UncommittedChanges[1])
          /\ \A name \in Names, price \in Prices, priceUnit \in PriceUnits,
                materialType \in Types, quantity \in Quantities,
                quantityUnit \in QuantityUnits,
                o \in OptionalInputs, uuidOutcome \in UUIDOutcomes :
                CreateMaterial(name, price, priceUnit, materialType, quantity,
                               quantityUnit, o.expirationDate, o.notes,
                               o.producedBy, o.isExpense, uuidOutcome)
                  => /\ m'.ExpirationDate = o.expirationDate
                     /\ m'.Notes = o.notes
                     /\ m'.ProducedBy = o.producedBy
                     /\ m'.IsExpense = o.isExpense
      ]_vars

C9_Witness ==
    /\ op = "CreateMaterial"
    /\ result = NoError
    /\ live
    /\ m.Notes = None
    /\ m.Name # <<>>

\* C10: the UID is assigned once by CreateMaterial and no later call changes
\* it; every event recorded in UncommittedChanges carries that UID.
C10_UIDImmutable ==
    /\ [](live => (m.UID # 0 /\ \A i \in 1..Len(Events) : Events[i].UID = m.UID))
    /\ [][ live => m'.UID = m.UID ]_vars

C10_Witness ==
    /\ live
    /\ Len(Events) >= 3
    /\ Events[2].kind = "MaterialNameChanged"
    /\ Events[3].kind = "MaterialPriceChanged"
    /\ IsError(result)

\* ------------------------------------------------ ChangeName on any name
\* one fixed valid creation (the optional inputs and the uuid outcome vary)
DoCreateMaterialFixed ==
    \E o \in OptionalInputs, uuidOutcome \in UUIDOutcomes :
        CreateMaterial(<<97, 98, 99, 100, 101, 102>>, "5.00", MoneyEUR,
                       MaterialTypeSeedCode, Num(50), MaterialUnitSeeds,
                       o.expirationDate, o.notes, o.producedBy, o.isExpense,
                       uuidOutcome)

\* names of 0, 1, 5, 6 and 7 one-byte characters, and names with characters
\* of two (233), three (8364) and four (128512) UTF-8 bytes
NameInputs ==
    { <<>>, <<97>>, <<97, 98, 99, 100, 101>>, <<97, 98, 99, 100, 101, 102>>,
      <<97, 98, 99, 100, 101, 102, 103>>,
      <<233, 233>>, <<233, 233, 233>>, <<233, 233, 233, 233, 233>>,
      <<233, 233, 233, 233, 233, 233>>,
      <<8364, 8364>>, <<128512, 97>>, <<128512, 128512>> }

DoChangeNameAny == \E name \in NameInputs : ChangeName(name)

NextName ==
    \/ DoCreateMaterialFixed
    \/ DoChangeNameAny

SpecName == Init /\ [][NextName]_vars

\* C11: ChangeName(name) fails with the invalid-input error when name is
\* empty, fails with the too-short error when name has 1 to 5 characters, and
\* succeeds, recording MaterialNameChanged{uid, name}, for every name of 6 or
\* more characters.
C11_ChangeNameByCharacters ==
    [][ op' = "ChangeName" =>
          \A n \in NameInputs :
             ChangeName(n) =>
                /\ Len(n) = 0 => result' = ErrNameEmpty
                /\ Len(n) \in 1..5 => result' = ErrNameShort
                /\ Len(n) >= 6 =>
                      /\ result' = NoError
                      /\ m'.UncommittedChanges[Len(m'.UncommittedChanges)]
                            = MaterialNameChanged(m.UID, n)
      ]_vars

\* ------------------------------------------------- CreateMoney on its own
\* a direct call of CreateMoney; on success the caller holds the Money that
\* points at the newest heap cell
CreateMoney(price, priceUnit) ==
    LET err == CreateMoneyErr(price, priceUnit)
    IN  /\ Len(heap) < MaxEvents
        /\ op' = "CreateMoney"
        /\ result' = err
        /\ heap' = IF err = NoError THEN NewMoneyHeap(heap, price) ELSE heap
        /\ UNCHANGED <<m, live, succeeded>>

MoneyAmounts == { "", "0", "5.00", "10.50", "abc" }

MoneyCodes == { "", MoneyEUR, MoneyIDR, "XYZ", "eur" }

DoCreateMoney ==
    \E price \in MoneyAmounts, priceUnit \in MoneyCodes : CreateMoney(price, priceUnit)

NextCreateMoney == DoCreateMoney

SpecCreateMoney == Init /\ [][NextCreateMoney]_vars

\* C12: CreateMoney(amount, code) fails with the invalid-input error whenever
\* amount is empty, fails with the unsupported-currency error whenever amount
\* is non-empty and code is not "EUR" ("IDR" included), and otherwise returns a
\* Money with Code() = "EUR", Symbol() = "€" and Amount() = amount.
C12_CreateMoneyOutcomes ==
    [][ op' = "CreateMoney" =>
          \A a \in MoneyAmounts, c \in MoneyCodes :
             CreateMoney(a, c) =>
                /\ a = "" => (result' = ErrPriceEmpty /\ heap' = heap)
                /\ (a # "" /\ c # "EUR") => (result' = ErrMoneyNotFound /\ heap' = heap)
                /\ (a # "" /\ c = "EUR") =>
                      /\ result' = NoError
                      /\ Len(heap') = Len(heap) + 1
                      /\ EURCode = "EUR"
                      /\ EURSymbol = "€"
                      /\ Amount(heap', Len(heap')) = a
      ]_vars

C12_Witness ==
    /\ op = "CreateMoney"
    /\ result = ErrMoneyNotFound
    /\ Len(heap) >= 2
    /\ Amount(heap, 1) = "10.50"

\* --------------------------------------------------- recorded events
\* what an event says, with each Money pointer replaced by the amount it
\* currently shows
EventContent(h, e) ==
    IF e.kind = "MaterialCreated" THEN [e EXCEPT !.PricePerUnit = Amount(h, @)]
    ELSE IF e.kind = "MaterialPriceChanged" THEN [e EXCEPT !.Price = Amount(h, @)]
    ELSE e

\* C13: an event, once appended to UncommittedChanges, is immutable: no later
\* operation (a command, or Money.SetAmount on the aggregate's PricePerUnit)
\* changes the contents of a recorded event, and the buffer before the
\* operation is a prefix of the buffer after it.
C13_EventsImmutable ==
    [][ /\ Len(m'.UncommittedChanges) >= Len(m.UncommittedChanges)
        /\ \A i \in 1..Len(m.UncommittedChanges) :
              /\ m'.UncommittedChanges[i] = m.UncommittedChanges[i]
              /\ EventContent(heap', m'.UncommittedChanges[i])
                    = EventContent(heap, m.UncommittedChanges[i])
      ]_vars

\* ------------------------------------------- every type and unit code
AllTypeCodes ==
    { MaterialTypeSeedCode, MaterialTypeAgrochemicalCode, MaterialTypeGrowingMediumCode,
      MaterialTypeLabelAndCropSupportCode, MaterialTypeSeedingContainerCode,
      MaterialTypePostHarvestSupplyCode, MaterialTypePlantCode, MaterialTypeOtherCode,
      "FOREIGN", "" }

AllUnitCodes ==
    { MaterialUnitSeeds, MaterialUnitPackets, MaterialUnitGram, MaterialUnitKilogram,
      MaterialUnitBags, MaterialUnitBottles, MaterialUnitCubicMetre,
      MaterialUnitPieces, MaterialUnitUnits, "LITRE", "" }

\* one creation for every pair of type and unit code
CreateMaterialOfUnit(quantityUnit, materialType) ==
    CreateMaterial(<<97, 98, 99, 100, 101, 102>>, "5.00", MoneyEUR, materialType,
                   Num(50), quantityUnit, None, None, None, None, 7)

DoCreateMaterialAnyUnit ==
    \E quantityUnit \in AllUnitCodes, materialType \in AllTypeCodes :
        CreateMaterialOfUnit(quantityUnit, materialType)

NextUnits ==
    \/ DoCreateMaterialAnyUnit
    \/ DoChangeName
    \/ DoChangePricePerUnit

SpecUnits == Init /\ [][NextUnits]_vars

\* the allowed unit codes of section 3 of the specification, per type code
AllowedCodes(typeCode) ==
    CASE typeCode = "SEED"           -> { "SEEDS", "PACKETS", "GRAM", "KILOGRAM" }
      [] typeCode = "AGROCHEMICAL"   -> { "PACKETS", "BOTTLES", "BAGS" }
      [] typeCode = "GROWING_MEDIUM" -> { "BAGS", "CUBIC_METRE" }
      [] typeCode = "PLANT"          -> { "UNITS", "PACKETS" }
      [] typeCode \in { "LABEL_AND_CROP_SUPPORT", "SEEDING_CONTAINER",
                        "POST_HARVEST_SUPPLY", "OTHER" } -> { "PIECES" }
      [] OTHER -> { }

\* C14: GetMaterialQuantityUnit(typeCode, unitCode) returns the {code, label}
\* entry with Code = unitCode exactly when unitCode is in the fixed allowed set
\* of typeCode, and the zero-value unit otherwise, also for every unrecognized
\* typeCode, for which MaterialQuantityUnits returns an empty sequence.
C14_UnitLookup ==
    [][ op' = "CreateMaterial" =>
          \A u \in AllUnitCodes, t \in AllTypeCodes :
             CreateMaterialOfUnit(u, t) =>
                LET r == GetMaterialQuantityUnit(t, u)
                IN  /\ u \in AllowedCodes(t) =>
                          /\ r.Code = u
                          /\ r # ZeroUnit
                          /\ UnitAllowed(t, r)
                          /\ result' = NoError
                          /\ m'.Quantity.Unit = r
                    /\ u \notin AllowedCodes(t) =>
                          /\ r = ZeroUnit
                          /\ result' = ErrQuantityUnit
                    /\ AllowedCodes(t) = {} => MaterialQuantityUnits(t) = << >>
      ]_vars

C14_Witness ==
    /\ live
    /\ m.Type = MaterialTypeGrowingMediumCode
    /\ m.Quantity.Unit = Unit("CUBIC_METRE", "Cubic Metre")
    /\ Len(Events) >= 2

\* C15: a successful ChangeName, ChangePricePerUnit or ChangeQuantityUnit
\* leaves every domain field other than its own target (Name, PricePerUnit,
\* Quantity) unchanged; no command after CreateMaterial changes Type,
\* ExpirationDate, Notes, ProducedBy or IsExpense.
C15_OtherFieldsUnchanged ==
    [][ live =>
          /\ m'.Type = m.Type
          /\ m'.ExpirationDate = m.ExpirationDate
          /\ m'.Notes = m.Notes
          /\ m'.ProducedBy = m.ProducedBy
          /\ m'.IsExpense = m.IsExpense
          /\ m'.UID = m.UID
          /\ (op' = "ChangeName" /\ result' = NoError) =>
                [Domain(m') EXCEPT !.Name = <<>>] = [Domain(m) EXCEPT !.Name = <<>>]
          /\ (op' = "ChangePricePerUnit" /\ result' = NoError) =>
                [Domain(m') EXCEPT !.PricePerUnit = 0] = [Domain(m) EXCEPT !.PricePerUnit = 0]
          /\ (op' = "ChangeQuantityUnit" /\ result' = NoError) =>
                /\ [Domain(m') EXCEPT !.Quantity = ZeroMaterial.Quantity]
                      = [Domain(m) EXCEPT !.Quantity = ZeroMaterial.Quantity]
                /\ Amount(heap', m'.PricePerUnit) = Amount(heap, m.PricePerUnit)
          /\ (op' = "ChangeName" /\ result' = NoError) =>
                Amount(heap', m'.PricePerUnit) = Amount(heap, m.PricePerUnit)
      ]_vars

C15_Witness ==
    /\ live
    /\ op = "ChangeName"
    /\ result = NoError
    /\ m.Notes # None
    /\ Len(Events) >= 3
    /\ Events[2].kind = "MaterialQuantityChanged"

\* C16: CreateMaterial checks its inputs in the order price/currency, material
\* type present, quantity > 0, quantity unit allowed for the type, and returns
\* the error of the first failing check: a bad price or currency is reported
\* even when the type is absent, and an absent type is reported as the
\* invalid-input error before quantity and unit are examined (Code() is never
\* called on the absent type).
C16_CreateCheckOrder ==
    [][ (op' = "CreateMaterial" /\ result' # ErrUUID) =>
          /\ result' # Panic
          /\ \A price \in Prices, priceUnit \in PriceUnits, materialType \in Types,
                quantity \in Quantities, quantityUnit \in QuantityUnits :
                (\E name \in Names, o \in OptionalInputs :
                    CreateMaterial(name, price, priceUnit, materialType, quantity,
                                   quantityUnit, o.expirationDate, o.notes,
                                   o.producedBy, o.isExpense, 7))
                  => LET badPrice == price = ""
                         badCurrency == priceUnit # "EUR"
                         noType == materialType = NilType
                         badQuantity == ~quantity.nan /\ quantity.v <= 0
                         badUnit == ~UnitCodeAllowed(materialType, quantityUnit)
                     IN  result' =
                            IF badPrice THEN ErrPriceEmpty
                            ELSE IF badCurrency THEN ErrMoneyNotFound
                            ELSE IF noType THEN ErrTypeEmpty
                            ELSE IF badQuantity THEN ErrQuantity
                            ELSE IF badUnit THEN ErrQuantityUnit
                            ELSE NoError
      ]_vars

C16_Witness ==
    /\ ~live
    /\ op = "CreateMaterial"
    /\ result = ErrTypeEmpty

\* C17: every ChangeQuantityUnit call either returns nil or returns an error
\* value; with an absent materialType and a positive quantity it returns a
\* validation error rather than crashing.
C17_ChangeQuantityUnitReturns ==
    op = "ChangeQuantityUnit" => (result = NoError \/ IsError(result))

\* C18: the first element of UncommittedChanges is a MaterialCreated event and
\* no other element of the buffer is one.
C18_CreatedFirstAndOnly ==
    live =>
        /\ Len(Events) >= 1
        /\ Events[1].kind = "MaterialCreated"
        /\ \A i \in 2..Len(Events) : Events[i].kind # "MaterialCreated"

C18_Witness ==
    /\ live
    /\ Len(Events) >= 3
    /\ Events[2].kind = "MaterialPriceChanged"
    /\ Events[3].kind = "MaterialQuantityChanged"

\* ---------------------------------------------- events of an unknown kind
\* events that are none of the four kinds the aggregate emits
UnknownEvents ==
    { [ kind |-> "MaterialArchived", UID |-> 7 ],
      [ kind |-> "MaterialNotesChanged", UID |-> 7, Notes |-> "" ],
      [ kind |-> "nil" ] }

\* a direct call of the exported m.TrackChange(event)
ApplyTrackChange(event) ==
    /\ result # Panic
    /\ Len(m.UncommittedChanges) < MaxEvents
    /\ op' = "TrackChange"
    /\ result' = NoError
    /\ m' = TrackChange(m, event)
    /\ UNCHANGED <<live, heap, succeeded>>

\* a direct call of the exported m.Transition(event)
ApplyTransition(event) ==
    /\ result # Panic
    /\ op' = "Transition"
    /\ result' = NoError
    /\ m' = Transition(m, event)
    /\ UNCHANGED <<live, heap, succeeded>>

DoTrackChangeUnknown == \E event \in UnknownEvents : ApplyTrackChange(event)

DoTransitionUnknown == \E event \in UnknownEvents : ApplyTransition(event)

NextTrack ==
    \/ DoCreateMaterialFixed
    \/ DoChangeName
    \/ DoChangePricePerUnit
    \/ DoTrackChangeUnknown
    \/ DoTransitionUnknown

SpecTrack == Init /\ [][NextTrack]_vars

\* C19: Transition applied to an event of a kind other than the four the
\* aggregate emits changes no field and does not fail; TrackChange of such an
\* event still appends it to UncommittedChanges and changes nothing else.
C19_UnknownEventIsNoOp ==
    [][ \A event \in UnknownEvents :
          /\ ApplyTransition(event) =>
                /\ m' = m
                /\ result' = NoError
          /\ ApplyTrackChange(event) =>
                /\ result' = NoError
                /\ Domain(m') = Domain(m)
                /\ m'.Version = m.Version
                /\ m'.UncommittedChanges = Append(m.UncommittedChanges, event)
      ]_vars

C19_Witness ==
    /\ live
    /\ op = "TrackChange"
    /\ Len(Events) >= 3
    /\ Events[Len(Events)].kind = "MaterialArchived"
    /\ Events[2].kind = "MaterialNameChanged"
    /\ m.Name = Events[1].Name
    /\ m.UID = 7

\* ---------------------------------------------------- quantity validation
\* quantities on both sides of zero, and NaN
QuantityInputs == { Num(-1), Num(0), Num(1), Num(50), NaN }

CreateMaterialOfQuantity(quantity, quantityUnit, materialType) ==
    CreateMaterial(<<97, 98, 99, 100, 101, 102>>, "5.00", MoneyEUR, materialType, quantity, quantityUnit, None, None, None, None, 7)

DoCreateMaterialAnyQuantity ==
    \E quantity \in QuantityInputs, quantityUnit \in QuantityUnits, materialType \in Types :
        CreateMaterialOfQuantity(quantity, quantityUnit, materialType)

DoChangeQuantityUnitAnyQuantity ==
    \E quantity \in QuantityInputs, quantityUnit \in QuantityUnits, materialType \in Types :
        ChangeQuantityUnit(quantity, quantityUnit, materialType)

NextQuantity ==
    \/ DoCreateMaterialAnyQuantity
    \/ DoChangeQuantityUnitAnyQuantity
    \/ DoChangeName

SpecQuantity == Init /\ [][NextQuantity]_vars

\* C20: validateQuantity fails exactly for v <= 0; CreateMaterial (once a
\* type is given) and ChangeQuantityUnit report a non-positive quantity
\* whatever the unit code and, for ChangeQuantityUnit, whatever the type,
\* because the quantity is checked before the unit is resolved.
C20_QuantityCheckedFirst ==
    [][ /\ \A quantity \in QuantityInputs :
              (validateQuantity(quantity) # NoError) <=> (~quantity.nan /\ quantity.v <= 0)
        /\ op' = "ChangeQuantityUnit" =>
              \A quantity \in QuantityInputs, quantityUnit \in QuantityUnits, materialType \in Types :
                  ChangeQuantityUnit(quantity, quantityUnit, materialType) =>
                      IF ~quantity.nan /\ quantity.v <= 0
                      THEN result' = ErrQuantity /\ m' = m
                      ELSE result' = validateQuantityUnitErr(quantityUnit, materialType)
        /\ op' = "CreateMaterial" =>
              \A quantity \in QuantityInputs, quantityUnit \in QuantityUnits, materialType \in Types \ {NilType} :
                  CreateMaterialOfQuantity(quantity, quantityUnit, materialType) =>
                      IF ~quantity.nan /\ quantity.v <= 0
                      THEN result' = ErrQuantity /\ ~live'
                      ELSE result' = validateQuantityUnitErr(quantityUnit, materialType)
      ]_vars

C20_Witness ==
    /\ live
    /\ op = "ChangeQuantityUnit"
    /\ result = ErrQuantity
    /\ Len(Events) >= 2
    /\ Events[2].kind = "MaterialQuantityChanged"
    /\ Events[2].Quantity.Value = Num(1)

====
